---- MODULE Spec2Model ----
(***************************************************************************)
(* Model of the SSCP_2018 course notebooks:                                *)
(*   - L11, Razumova crossbridge model: the derivative function rhs (the   *)
(*     notebook's and ReactionWidget.rhs) and the k_dev diagnostic         *)
(*     (notebook cell 8, repeated in ReactionWidget.solve_and_plot);       *)
(*   - L15, FitzHugh-Nagumo: BC_U_and_stim and the time-stepping driver.   *)
(*                                                                         *)
(* Numbers.  The Python code works on floats.  The model works on          *)
(* integers:                                                               *)
(*   - occupancies and rate constants are integers (rhs is a polynomial,   *)
(*     so it is exact on them, in Python as well);                         *)
(*   - the A_2 trajectory holds integers; f_half = (1-(1/e))*f_max is kept *)
(*     in millionths (fixed point), and a sample a is compared with it as  *)
(*     a * HalfDen < f_half;                                               *)
(*   - a sample time is the rational [num, den] of np.linspace;            *)
(*   - k_dev is a rational, or inf (what numpy's float64 division gives    *)
(*     for 1 / 0.0), or not yet computed.                                  *)
(***************************************************************************)
EXTENDS Integers, Sequences, FiniteSets

(* ------------------------------ bounds --------------------------------- *)

\* longest sampled trajectory explored (the notebook samples 5000 points)
MaxLen == 3

\* A_2 samples range over -MaxVal..MaxVal
MaxVal == 2

\* occupancies D, A_1, A_2 and the eight parameters range over 0..MaxRate
MaxRate == 1

\* number of calls of a derivative function the integrator makes
MaxCalls == 2

\* BC_U_and_stim is explored for t in -1..MaxBCTime
MaxBCTime == 160

(* ------------------------- program constants --------------------------- *)

\* np.linspace(0, 10, 5000): the time horizon
TEnd == 10

\* 1 - 1/e = 0.632120558..., as HalfNum / HalfDen; no fraction a/m with
\* 0 < m < 1000 lies between the two, so a * HalfDen < HalfNum * m decides
\* a < (1 - 1/e) * m for every sample and f_max explored
HalfNum == 632121

HalfDen == 1000000

\* FitzHugh-Nagumo driver: dt = 4., T = 500
dt == 4

T == 500

\* BC_U_and_stim
start_stim_end_time == 6

stimstarttime == 150

stimduration == 6

\* stimamp = 0.8, in tenths
stimamp == 8

VARIABLES
    \* k_dev computation (L11 cell 8)
    A_2,        \* the sampled A_2 trajectory (input)
    f_max, f_half, index, t_half, ktr,
    kpc,        \* position in the cell
    \* derivative function calls (L11 cell 4, L11_widgets)
    state,      \* the state vector y handed to the derivative function
    params,     \* the parameter tuple handed to it
    widget,     \* the ReactionWidget object's attributes
    dydt,       \* what the notebook's rhs returned last
    wdydt,      \* what ReactionWidget.rhs returned last
    ncalls,     \* calls made so far
    \* FitzHugh-Nagumo (L15)
    t, n, U, U_sol,
    bc_stim,    \* what BC_U_and_stim returned last
    solves,     \* the t of every solve_single_timestep call, in order
    frames,     \* number of frames written to fv / fw
    plotted,    \* what the last plot_solution(n) call of the slider drew
    fpc         \* position in the driver cell

kvars == <<A_2, f_max, f_half, index, t_half, ktr, kpc>>

rvars == <<state, params, widget, dydt, wdydt, ncalls>>

fvars == <<t, n, U, U_sol, bc_stim, solves, frames, plotted, fpc>>

vars == <<A_2, f_max, f_half, index, t_half, ktr, kpc,
          state, params, widget, dydt, wdydt, ncalls,
          t, n, U, U_sol, bc_stim, solves, frames, plotted, fpc>>

\* a name not bound yet
None == [kind |-> "none", num |-> 0, den |-> 0]

\* numpy: 1 / np.float64(0.0) is inf (RuntimeWarning, no exception)
Inf == [kind |-> "inf", num |-> 0, den |-> 0]

Rational(a, b) == [kind |-> "num", num |-> a, den |-> b]

(* ======================= L11: the k_dev computation ==================== *)

Vals == (0 - MaxVal)..MaxVal

RECURSIVE SeqsOfLen(_)
SeqsOfLen(k) ==
    IF k = 0 THEN {<<>>}
    ELSE {Append(s, v) : s \in SeqsOfLen(k - 1), v \in Vals}

\* the trajectories explored: every non-empty sequence up to MaxLen
Trajectories == UNION {SeqsOfLen(k) : k \in 1..MaxLen}

\* time = np.linspace(0, 10, N); time[i] for a Python index i
time(i, N) ==
    IF N = 1 THEN Rational(0, 1) ELSE Rational(i * TEnd, N - 1)

\* f_max read from the first sample instead of the last
FMaxWrong(A) == A[1]

\* f_max = A_2[len(A_2)-1]
FMaxOf(A) == A[Len(A)]

\* the threshold with the sign slipped: (1+(1/e))*f_max
FHalfWrong(fm) == (HalfDen + (HalfDen - HalfNum)) * fm

\* f_half = (1-(1/e))*f_max, in millionths
FHalfOf(fm) == HalfNum * fm

\* A_2[index] < f_half
BelowHalf(a, fh) == a * HalfDen < fh

\* ktr = 1 / t_half on a numpy float64: inf at t_half = 0.0 (a
\* RuntimeWarning, no exception), the exact reciprocal elsewhere
Reciprocal(q) == IF q.num = 0 THEN Inf ELSE Rational(q.den, q.num)

KInit ==
    /\ A_2 \in Trajectories
    /\ f_max = 0
    /\ f_half = 0
    /\ index = 0
    /\ t_half = None
    /\ ktr = None
    /\ kpc = "calc"

KIdle ==
    /\ A_2 = <<0>>
    /\ f_max = 0
    /\ f_half = 0
    /\ index = 0
    /\ t_half = None
    /\ ktr = None
    /\ kpc = "idle"

\* f_max = ...; f_half = ...; index = 0
CalcFMax ==
    /\ kpc = "calc"
    /\ f_max' = FMaxOf(A_2)
    /\ f_half' = FHalfOf(FMaxOf(A_2))
    /\ index' = 0
    /\ kpc' = "scan"
    /\ UNCHANGED <<A_2, t_half, ktr, rvars, fvars>>

\* while A_2[index] < f_half: index += 1
ScanStep ==
    /\ kpc = "scan"
    /\ index < Len(A_2)
    /\ BelowHalf(A_2[index + 1], f_half)
    /\ index' = index + 1
    /\ UNCHANGED <<A_2, f_max, f_half, t_half, ktr, kpc, rvars, fvars>>

\* a sentinel instead of the error: the last sample's time
ScanOffEndSentinel ==
    /\ kpc = "scan"
    /\ index >= Len(A_2)
    /\ t_half' = time(Len(A_2) - 1, Len(A_2))
    /\ kpc' = "recip"
    /\ UNCHANGED <<A_2, f_max, f_half, index, ktr, rvars, fvars>>

\* A_2[index] with index = len(A_2): IndexError, the cell stops
ScanOffEnd ==
    /\ kpc = "scan"
    /\ index >= Len(A_2)
    /\ kpc' = "IndexError"
    /\ UNCHANGED <<A_2, f_max, f_half, index, t_half, ktr, rvars, fvars>>

\* the loop test fails; t_half = time[index]
ScanExit ==
    /\ kpc = "scan"
    /\ index < Len(A_2)
    /\ ~BelowHalf(A_2[index + 1], f_half)
    /\ t_half' = time(index, Len(A_2))
    /\ kpc' = "recip"
    /\ UNCHANGED <<A_2, f_max, f_half, index, ktr, rvars, fvars>>

\* ktr = 1 / t_half
TakeReciprocal ==
    /\ kpc = "recip"
    /\ ktr' = Reciprocal(t_half)
    /\ kpc' = "print"
    /\ UNCHANGED <<A_2, f_max, f_half, index, t_half, rvars, fvars>>

\* print("k_dev = ", ktr, " 1/sec")
PrintKdev ==
    /\ kpc = "print"
    /\ kpc' = "done"
    /\ UNCHANGED <<A_2, f_max, f_half, index, t_half, ktr, rvars, fvars>>

(* ====================== L11: the derivative function =================== *)

Rates == 0..MaxRate

\* the t argument: the start of the time vector, or a later point
TimeArgs == {0, TEnd}

\* rhs with A_2 fed from R_off as well (the k_on term repeated in dA2_dt)
rhsWrong(y, tm, R_T, k_on, k_off, f, f_prime, h, h_prime, g) ==
    LET D == y[1]
        A1 == y[2]
        A2 == y[3]
        dD_dt == k_on * (R_T - D - A1 - A2) + f_prime * A1 + g * A2 - (k_off + f) * D
        dA1_dt == f * D + h_prime * A2 - (f_prime + h) * A1
        dA2_dt == h * A1 - (h_prime + g) * A2 + k_on * (R_T - D - A1 - A2)
    IN  <<dD_dt, dA1_dt, dA2_dt>>

\* def rhs(y, t, R_T, k_on, k_off, f, f_prime, h, h_prime, g); t is unused
rhs(y, tm, R_T, k_on, k_off, f, f_prime, h, h_prime, g) ==
    LET D == y[1]
        A1 == y[2]
        A2 == y[3]
        dD_dt == k_on * (R_T - D - A1 - A2) + f_prime * A1 + g * A2 - (k_off + f) * D
        dA1_dt == f * D + h_prime * A2 - (f_prime + h) * A1
        dA2_dt == h * A1 - (h_prime + g) * A2
    IN  <<dD_dt, dA1_dt, dA2_dt>>

\* ReactionWidget.rhs(self, y, t, R_T, ...), read from the bytecode of the
\* compiled L11_widgets module: the same three expressions; self is not used
ReactionWidget_rhs(y, tm, R_T, k_on, k_off, f, f_prime, h, h_prime, g) ==
    LET D == y[1]
        A1 == y[2]
        A2 == y[3]
        dD_dt == k_on * (R_T - D - A1 - A2) + f_prime * A1 + g * A2 - (k_off + f) * D
        dA1_dt == f * D + h_prime * A2 - (f_prime + h) * A1
        dA2_dt == h * A1 - (h_prime + g) * A2
    IN  <<dD_dt, dA1_dt, dA2_dt>>

ParamSets ==
    [R_T : Rates, k_on : Rates, k_off : Rates, f : Rates,
     f_prime : Rates, h : Rates, h_prime : Rates, g : Rates]

\* solve_and_plot: self.k_on = k_on; self.f = f; self.h = h; self.g = g
WidgetOf(p) == [k_on |-> p.k_on, f |-> p.f, h |-> p.h, g |-> p.g]

RInit ==
    /\ state \in [1..3 -> Rates]
    /\ params \in ParamSets
    /\ widget = WidgetOf(params)
    /\ dydt = <<>>
    /\ wdydt = <<>>
    /\ ncalls = 0

RIdle ==
    /\ state = <<0, 0, 0>>
    /\ params = [R_T |-> 1, k_on |-> 0, k_off |-> 0, f |-> 0,
                 f_prime |-> 0, h |-> 0, h_prime |-> 0, g |-> 0]
    /\ widget = WidgetOf(params)
    /\ dydt = <<>>
    /\ wdydt = <<>>
    /\ ncalls = 0

\* a derivative function that updates its argument in place
RhsCallInPlace ==
    /\ ncalls < MaxCalls
    /\ \E tm \in TimeArgs :
         /\ dydt' = rhs(state, tm, params.R_T, params.k_on, params.k_off, params.f,
                        params.f_prime, params.h, params.h_prime, params.g)
         /\ state' = [state EXCEPT ![1] = state[1] + dydt'[1] + 1]
    /\ ncalls' = ncalls + 1
    /\ UNCHANGED <<params, widget, wdydt, kvars, fvars>>

\* the integrator calls rhs(y, t, *params) at a time of its choosing
RhsCall ==
    /\ ncalls < MaxCalls
    /\ \E tm \in TimeArgs :
         dydt' = rhs(state, tm, params.R_T, params.k_on, params.k_off, params.f,
                     params.f_prime, params.h, params.h_prime, params.g)
    /\ ncalls' = ncalls + 1
    /\ UNCHANGED <<state, params, widget, wdydt, kvars, fvars>>

\* the integrator calls self.rhs(y, t, *params)
WidgetRhsCall ==
    /\ ncalls < MaxCalls
    /\ \E tm \in TimeArgs :
         wdydt' = ReactionWidget_rhs(state, tm, params.R_T, params.k_on, params.k_off,
                                     params.f, params.f_prime, params.h,
                                     params.h_prime, params.g)
    /\ ncalls' = ncalls + 1
    /\ UNCHANGED <<state, params, widget, dydt, kvars, fvars>>

(* ========================= L15: FitzHugh-Nagumo ======================== *)

\* Constant(0)
NoStimulus == [kind |-> "Constant", amp |-> 0]

\* Stimulus(degree=2): stimamp on the bottom left quarter, 0 elsewhere
Stimulus == [kind |-> "Stimulus", amp |-> stimamp]

\* DirichletBC(ME.sub(0), Constant(1), "near(x[0], 0) && on_boundary")
DirichletLeft == [sub |-> 0, value |-> 1, where |-> "left"]

\* BC_U_and_stim with the phase boundaries included (<=, >=)
BC_U_and_stimWrong(tt) ==
    IF tt <= start_stim_end_time
    THEN [bcs |-> <<DirichletLeft>>, stim |-> NoStimulus]
    ELSE IF tt >= stimstarttime /\ tt < stimstarttime + stimduration
    THEN [bcs |-> <<>>, stim |-> Stimulus]
    ELSE [bcs |-> <<>>, stim |-> NoStimulus]

\* def BC_U_and_stim(t): the (bcs, stim) pair
BC_U_and_stim(tt) ==
    IF tt < start_stim_end_time
    THEN [bcs |-> <<DirichletLeft>>, stim |-> NoStimulus]
    ELSE IF tt > stimstarttime /\ tt < stimstarttime + stimduration
    THEN [bcs |-> <<>>, stim |-> Stimulus]
    ELSE [bcs |-> <<>>, stim |-> NoStimulus]

\* nothing returned yet
NoCall == [bcs |-> <<>>, stim |-> [kind |-> "none", amp |-> 0]]

\* U = Function(ME): the zero function, no solve behind it
U0 == [at |-> 0, from |-> 0 - 1, bcs |-> 0, stim |-> "Constant"]

\* def solve_single_timestep(Up, t): the Function the Newton solve returns,
\* named by the time it was solved for, the solution it started from and
\* the boundary conditions and stimulus of BC_U_and_stim(t)
solve_single_timestep(Up, tt) ==
    LET bs == BC_U_and_stim(tt)
    IN  [at |-> tt, from |-> Up.at, bcs |-> Len(bs.bcs), stim |-> bs.stim.kind]

\* the slider has drawn nothing yet
NoPlot == [n |-> 0, drawn |-> "none", t |-> 0]

\* t = 0; dt = 4.; T = 500; U_sol = {}; n = 0
FInit ==
    /\ t = 0
    /\ n = 0
    /\ U = U0
    /\ U_sol = <<>>
    /\ bc_stim = NoCall
    /\ solves = <<>>
    /\ frames = 0
    /\ plotted = NoPlot
    /\ fpc = "while"

FIdle ==
    /\ t = 0
    /\ n = 0
    /\ U = U0
    /\ U_sol = <<>>
    /\ bc_stim = NoCall
    /\ solves = <<>>
    /\ frames = 0
    /\ plotted = NoPlot
    /\ fpc = "idle"

\* while t <= T: (true)
LoopEnter ==
    /\ fpc = "while"
    /\ t <= T
    /\ fpc' = "advance"
    /\ UNCHANGED <<t, n, U, U_sol, bc_stim, solves, frames, plotted, kvars, rvars>>

\* while t <= T: (false)
LoopExit ==
    /\ fpc = "while"
    /\ ~(t <= T)
    /\ fpc' = "done"
    /\ UNCHANGED <<t, n, U, U_sol, bc_stim, solves, frames, plotted, kvars, rvars>>

\* the step counter advanced by two
AdvanceWrong ==
    /\ fpc = "advance"
    /\ t' = t + dt
    /\ n' = n + 2
    /\ fpc' = "solve"
    /\ UNCHANGED <<U, U_sol, bc_stim, solves, frames, plotted, kvars, rvars>>

\* t += dt; n += 1
Advance ==
    /\ fpc = "advance"
    /\ t' = t + dt
    /\ n' = n + 1
    /\ fpc' = "solve"
    /\ UNCHANGED <<U, U_sol, bc_stim, solves, frames, plotted, kvars, rvars>>

\* U = solve_single_timestep(U, t)
Solve ==
    /\ fpc = "solve"
    /\ bc_stim' = BC_U_and_stim(t)
    /\ U' = solve_single_timestep(U, t)
    /\ solves' = Append(solves, t)
    /\ fpc' = "store"
    /\ UNCHANGED <<t, n, U_sol, frames, plotted, kvars, rvars>>

\* U_sol[n] = (t, U.copy()); fv << u_p; fw << v_p
Store ==
    /\ fpc = "store"
    /\ U_sol' = [k \in (DOMAIN U_sol) \cup {n} |-> IF k = n THEN <<t, U>> ELSE U_sol[k]]
    /\ frames' = frames + 1
    /\ fpc' = "while"
    /\ UNCHANGED <<t, n, U, bc_stim, solves, plotted, kvars, rvars>>

\* min(U_sol.keys()), max(U_sol.keys()) of a non-empty dict
MinKey(d) == CHOOSE k \in DOMAIN d : \A j \in DOMAIN d : k <= j

MaxKey(d) == CHOOSE k \in DOMAIN d : \A j \in DOMAIN d : j <= k

\* interact(plot_solution, n=slider): the slider is set to some value
\* between its min and max and plot_solution(n) reads t, U = U_sol[n]
\* (KeyError when n is no key)
PlotSolution ==
    /\ fpc = "done"
    /\ \E k \in MinKey(U_sol)..MaxKey(U_sol) :
         plotted' = IF k \in DOMAIN U_sol
                    THEN [n |-> k, drawn |-> "plot", t |-> U_sol[k][1]]
                    ELSE [n |-> k, drawn |-> "KeyError", t |-> 0]
    /\ UNCHANGED <<t, n, U, U_sol, bc_stim, solves, frames, fpc, kvars, rvars>>

\* BC_U_and_stim on its own, for any t
BInit ==
    /\ t \in (0 - 1)..MaxBCTime
    /\ n = 0
    /\ U = U0
    /\ U_sol = <<>>
    /\ bc_stim = NoCall
    /\ solves = <<>>
    /\ frames = 0
    /\ plotted = NoPlot
    /\ fpc = "bc"

CallBC ==
    /\ fpc = "bc"
    /\ bc_stim' = BC_U_and_stim(t)
    /\ fpc' = "bc_done"
    /\ UNCHANGED <<t, n, U, U_sol, solves, frames, plotted, kvars, rvars>>

(* ============================ specifications =========================== *)

\* the k_dev computation on every trajectory
Init == KInit /\ RIdle /\ FIdle

Next ==
    \/ CalcFMax
    \/ ScanStep
    \/ ScanOffEnd
    \/ ScanExit
    \/ TakeReciprocal
    \/ PrintKdev

Spec == Init /\ [][Next]_vars

\* the derivative functions on every state and parameter set
InitRhs == KIdle /\ RInit /\ FIdle

NextRhs == RhsCall \/ WidgetRhsCall

SpecRhs == InitRhs /\ [][NextRhs]_vars

\* the FitzHugh-Nagumo driver cell
InitFHN == KIdle /\ RIdle /\ FInit

NextFHN == LoopEnter \/ LoopExit \/ Advance \/ Solve \/ Store \/ PlotSolution

SpecFHN == InitFHN /\ [][NextFHN]_vars

\* BC_U_and_stim on every t
InitBC == KIdle /\ RIdle /\ BInit

NextBC == CallBC

SpecBC == InitBC /\ [][NextBC]_vars

(* ================================ claims =============================== *)

\* the claimed derivatives, written out from the claim
ClaimedDerivative(y, p) ==
    <<p.k_on * (p.R_T - y[1] - y[2] - y[3]) + p.f_prime * y[2] + p.g * y[3]
        - (p.k_off + p.f) * y[1],
      p.f * y[1] + p.h_prime * y[3] - (p.f_prime + p.h) * y[2],
      p.h * y[2] - (p.h_prime + p.g) * y[3]>>

\* C1: whatever the state and the parameters, the notebook's rhs and
\* ReactionWidget.rhs both return [dD/dt, dA1/dt, dA2/dt] as the claimed
\* expressions, in that order; dA2/dt is h*A1 - (h_prime+g)*A2, with no D,
\* R_T, k_on or k_off in it.
C1_RhsReturnsMassAction ==
    /\ dydt # <<>> => dydt = ClaimedDerivative(state, params)
    /\ wdydt # <<>> => wdydt = ClaimedDerivative(state, params)
    /\ dydt # <<>> => dydt[3] = params.h * state[2] - (params.h_prime + params.g) * state[3]

\* both functions were called on a state with D > 0 and k_on, k_off > 0
C1_Witness ==
    /\ dydt # <<>>
    /\ wdydt # <<>>
    /\ state[1] > 0
    /\ state[2] > 0
    /\ params.k_on > 0
    /\ params.k_off > 0
    /\ params.h > 0

\* some sample reaches the threshold (1 - 1/e) * A_2[last]
Reaches(A) == \E i \in 1..Len(A) : A[i] * HalfDen >= HalfNum * A[Len(A)]

\* C2: when no sample reaches f_half, the scan runs off the end and the
\* computation stops with the out-of-bounds error (Python: IndexError); no
\* k_dev, sentinel or default, is computed or printed.
C2_OffEndIsError ==
    /\ ~Reaches(A_2) => (kpc \in {"calc", "scan", "IndexError"} /\ ktr = None /\ t_half = None)
    /\ (kpc = "scan" /\ index >= Len(A_2)) => ~Reaches(A_2)
    /\ kpc = "IndexError" => (~Reaches(A_2) /\ index = Len(A_2))

\* the scan ran off the end of a trajectory of more than one sample
C2_Witness ==
    /\ kpc = "IndexError"
    /\ ~Reaches(A_2)
    /\ Len(A_2) > 1
    /\ index = Len(A_2)

\* C3 (as claimed): when the scan stops at a sample with t_half = 0, the
\* computation raises and no value of k_dev, inf included, is produced.
C3_ZeroTimeRaises ==
    (t_half # None /\ t_half.num = 0) => (ktr = None /\ kpc \notin {"print", "done"})

AllZero(A) == \A i \in 1..Len(A) : A[i] = 0

\* C4 (as claimed): on a constant-zero trajectory the computation ends in
\* an error and no numeric k_dev is computed or printed.
C4_ZeroTrajectoryRaises ==
    AllZero(A_2) => (ktr = None /\ kpc \notin {"print", "done"})

\* C5: when some sample reaches the threshold, f_max is the last sample,
\* f_half = (1 - 1/e) * f_max, the scan stops at the first index whose sample
\* is >= f_half (every earlier one is below), t_half is that sample's time
\* and k_dev = 1 / t_half (k_dev * t_half = 1; float inf at t_half = 0).
C5_FirstCrossing ==
    /\ Reaches(A_2) => kpc # "IndexError"
    /\ kpc \in {"recip", "print", "done"} =>
        /\ Reaches(A_2)
        /\ f_max = A_2[Len(A_2)]
        /\ f_half = HalfNum * f_max
        /\ index + 1 \in 1..Len(A_2)
        /\ A_2[index + 1] * HalfDen >= f_half
        /\ \A j \in 1..index : A_2[j] * HalfDen < f_half
        /\ t_half.kind = "num"
        /\ t_half.num * (IF Len(A_2) = 1 THEN 1 ELSE Len(A_2) - 1) = index * TEnd * t_half.den
    /\ kpc \in {"print", "done"} =>
        /\ t_half.num # 0 => (ktr.kind = "num" /\ ktr.num * t_half.num = ktr.den * t_half.den)
        /\ t_half.num = 0 => ktr = Inf

\* k_dev printed for a crossing strictly inside the trajectory
C5_Witness ==
    /\ kpc = "done"
    /\ index > 0
    /\ index < Len(A_2) - 1
    /\ ktr.kind = "num"
    /\ A_2[1] # 0

\* C10: when the final sample is >= 0 the scan stays inside the sequence
\* (index <= len - 1) and never raises; it runs off the end only when the
\* final sample is negative.
C10_ScanInBounds ==
    /\ (kpc \notin {"idle", "calc"} /\ A_2[Len(A_2)] >= 0) =>
            (kpc # "IndexError" /\ index <= Len(A_2) - 1)
    /\ kpc = "IndexError" => A_2[Len(A_2)] < 0

\* the scan walked to the last sample of a trajectory ending >= 0
C10_Witness ==
    /\ kpc = "recip"
    /\ Len(A_2) > 1
    /\ index = Len(A_2) - 1
    /\ A_2[Len(A_2)] > 0

\* C7: a call of a derivative function changes nothing but its own return
\* value: the state vector, the parameters and the widget object are left
\* as they were, and a call on the inputs of an earlier call returns what
\* that call returned.
C7_RhsIsPure ==
    [][ncalls' # ncalls =>
          /\ state' = state
          /\ params' = params
          /\ widget' = widget
          /\ UNCHANGED <<kvars, fvars>>
          /\ dydt # <<>> => dydt' = dydt
          /\ wdydt # <<>> => wdydt' = wdydt]_vars

\* rhs was called twice on the same inputs
C7_Witness ==
    /\ ncalls >= 2
    /\ dydt # <<>>
    /\ wdydt = <<>>
    /\ dydt[1] # 0

C9_ThreePhases ==
    fpc = "bc_done" =>
        LET dirichlet == bc_stim.bcs # <<>>
            stimulated == bc_stim.stim.kind = "Stimulus" /\ bc_stim.stim.amp # 0
        IN  /\ dirichlet <=> t < 6
            /\ stimulated <=> (150 < t /\ t < 156)
            /\ dirichlet => bc_stim.bcs = <<[sub |-> 0, value |-> 1, where |-> "left"]>>
            /\ ~stimulated => bc_stim.stim = [kind |-> "Constant", amp |-> 0]
            /\ ~(dirichlet /\ stimulated)

\* the stimulus phase was returned
C9_Witness ==
    /\ fpc = "bc_done"
    /\ bc_stim.stim.kind = "Stimulus"
    /\ bc_stim.bcs = <<>>
    /\ t = 151

\* C11: after every iteration of the driver loop t = n * dt, the keys of
\* U_sol are exactly 1..n, entry k holds time k * dt, each stored solution
\* was solved from the one stored before it (the first from the initial
\* U), and U, the previous solution of the next step, is the one stored
\* last; so every slider value between the smallest and the largest key
\* has an entry and plot_solution never meets a missing key.
C11_LoopBookkeeping ==
    /\ fpc \in {"while", "done"} =>
        /\ t = n * dt
        /\ DOMAIN U_sol = 1..n
        /\ Len(solves) = n
        /\ \A k \in 1..n :
            /\ U_sol[k][1] = k * dt
            /\ solves[k] = k * dt
            /\ U_sol[k][2].at = k * dt
            /\ U_sol[k][2].from = (IF k = 1 THEN 0 ELSE U_sol[k - 1][2].at)
        /\ n > 0 => U = U_sol[n][2]
        /\ n > 0 => \A k \in MinKey(U_sol)..MaxKey(U_sol) : k \in DOMAIN U_sol
    /\ fpc \in {"solve", "store"} => (t = n * dt /\ DOMAIN U_sol = 1..(n - 1))
    /\ fpc = "solve" => (n > 1 => U = U_sol[n - 1][2]) /\ (n = 1 => U = U0)
    /\ plotted.drawn # "KeyError"
    /\ plotted.drawn = "plot" => (plotted.n \in 1..n /\ plotted.t = plotted.n * dt)

\* the loop is over and the slider drew a step strictly inside the run
C11_Witness ==
    /\ fpc = "done"
    /\ n > 2
    /\ plotted.drawn = "plot"
    /\ plotted.n > 1
    /\ plotted.n < n

====
